---- MODULE Spec2Model ----
(***************************************************************************)
(* Model of the channel monitoring engine of discord-to-wechat:            *)
(* DiscordListener.monitor_messages and switch_to_channel                  *)
(* (src/src/services/listener/discord_listener.py), with the browser and   *)
(* the rendered message lists of the channels as the environment.          *)
(*                                                                         *)
(* A channel's history is the messages 1..posted[c], in posting order;     *)
(* the page renders a contiguous window dom[c] of it (the host page        *)
(* virtualizes both ends of the list), so the rendered node list is        *)
(* <<lo, lo+1, ..., hi>>, oldest first, and the identifier of a node is    *)
(* its position in the history.  None (0) is Python's None.                *)
(***************************************************************************)
EXTENDS Integers, Sequences, FiniteSets, TLC

\* ---- bounds of the model
MaxChannels == 2
MaxMsg == 3
MaxHandle == 3
MaxEvents == 3
MaxContent == 2
MaxAtt == 3
MaxLink == 2
MaxPrev == 9
MaxCount == 6

\* ---- program constants
max_errors == 5
Lookback == 8

None == 0
AllChannels == 1..MaxChannels
Handles == 1..MaxHandle
EmptyDom == [lo |-> 1, hi |-> 0]

VARIABLES
    channel_urls,       \* number of configured channels: the channels are 1..channel_urls
    last_message_ids,   \* channel -> identifier of the cursor, or None
    channel_handles,    \* channel -> cached window handle, or None (no entry)
    channel_errors,     \* channel -> error counter (local of monitor_messages)
    pc,                 \* position of monitor_messages
    channel_idx,        \* the channel the for loop is at
    messages,           \* the enumerated node list of the poll
    new_messages,       \* the nodes selected as new
    idx,                \* position of the inner for loop in new_messages
    msg_obj,            \* identifier of the message parse_message returned
    alive,              \* the browser session answers driver calls
    windows,            \* driver.window_handles, in creation order
    current,            \* driver.current_window_handle, or None when it is closed
    tabUrl,             \* handle -> channel whose page the tab shows, or None
    posted,             \* channel -> number of messages of its history
    dom,                \* channel -> rendered window [lo, hi] of the history
    events,             \* environment events and spontaneous failures so far
    \* ---- history variables (read only by the properties)
    kind,               \* how the poll selected: "none", "first", "after", "fallback"
    cursor0,            \* the cursor when the poll selected
    handed,             \* callback invocations of this poll: <<[id, res]>>
    skipped,            \* nodes of this poll for which parse_message returned None
    lastHanded,         \* channel -> last callback invocation [id, "ret" or "raise"]
    failed,             \* channel -> identifiers whose callback returned failure
    refired,            \* channel -> those of failed[c] since which the fallback fired
    streak,             \* channel -> poll errors since its last good poll or good reload
    recovered,          \* channel -> unbound by a tab-local recovery, not switched to since
    visited,            \* the channels switch_to_channel was called for in this round
    \* ---- state outside the polling loop
    signal,             \* "none", or "raised" once an interrupt signal has been raised
    element,            \* the message node handed to parse_message, or None
    parsed,             \* what parse_message returned for element
    username,           \* what _extract_username returned for element
    error_count         \* the one error counter of the earlier listener's monitor_messages

progVars == <<channel_urls, last_message_ids, channel_handles, channel_errors, pc,
              channel_idx, messages, new_messages, idx, msg_obj>>
envVars == <<alive, windows, current, tabUrl, posted, dom, events>>
histVars == <<kind, cursor0, handed, skipped, lastHanded, failed, refired, streak,
              recovered, visited>>
auxVars == <<signal, element, parsed, username, error_count>>
vars == <<progVars, envVars, histVars, auxVars>>

Channels == 1..channel_urls

\* ---- helpers
Range(s) == {s[i] : i \in 1..Len(s)}
Last(s) == s[Len(s)]
Without(s, h) == SelectSeq(s, LAMBDA x : x # h)
Pos(s, x) == CHOOSE i \in 1..Len(s) : s[i] = x
Nodes(d) == [i \in 1..(d.hi - d.lo + 1) |-> d.lo + i - 1]
Doms(n) == {EmptyDom} \cup {d \in [lo : 1..n, hi : 1..n] : d.lo <= d.hi}

\* ---- the new-message selection of a poll (monitor_messages, lines 225-246)

\* for message in messages: nodes after the one whose id is last_message_id
RECURSIVE ScanAfter(_, _, _)
ScanAfter(ms, last_message_id, found_last) ==
    IF ms = <<>> THEN [new |-> <<>>, found_last |-> found_last]
    ELSE IF Head(ms) = last_message_id
         THEN ScanAfter(Tail(ms), last_message_id, TRUE)
         ELSE LET r == ScanAfter(Tail(ms), last_message_id, found_last)
              IN  [new |-> IF found_last THEN <<Head(ms)>> \o r.new ELSE r.new,
                   found_last |-> r.found_last]

FirstRunSelection_all(ms) == ms
\* last_message_id is None: new_messages = [messages[-1]]
FirstRunSelection(ms) == <<Last(ms)>>

FallbackSelection_range(ms) == ms
FallbackSelection_oldest(ms) == <<Head(ms)>>
\* not found_last: new_messages = [messages[-1]]
FallbackSelection(ms) == <<Last(ms)>>

CollectAfter_inclusive(ms, last_message_id) ==
    LET r == ScanAfter(ms, last_message_id, FALSE)
    IN  [r EXCEPT !.new = IF r.found_last THEN <<last_message_id>> \o r.new ELSE r.new]
CollectAfter_fromStart(ms, last_message_id) == ScanAfter(ms, last_message_id, TRUE)
\* the scan of lines 234-240
CollectAfter(ms, last_message_id) == ScanAfter(ms, last_message_id, FALSE)

\* ms is not empty (line 225); the result is [new, kind]
Selection(ms, last_message_id) ==
    IF last_message_id = None
    THEN [new |-> FirstRunSelection(ms), kind |-> "first"]
    ELSE LET r == CollectAfter(ms, last_message_id)
         IN  IF ~r.found_last /\ Len(r.new) = 0
             THEN IF Last(ms) # last_message_id
                  THEN [new |-> FallbackSelection(ms), kind |-> "fallback"]
                  ELSE [new |-> <<>>, kind |-> "none"]
             ELSE [new |-> r.new, kind |-> "after"]

\* ---- DiscordParser (discord_parser.py)

\* the texts a node can show: empty, blank, or some text
Texts == {"", " ", "hi"}
\* text.strip() is empty
Blank(t) == t \in {"", " "}
\* the sequences over S of length at most n
SeqUpTo(S, n) == UNION {[1..k -> S] : k \in 0..n}

\* a message node as the parser reads it:
\*   id        the id attribute, None when the attribute is absent
\*   stale     get_attribute('id') raises (the node left the page)
\*   contents  the texts of its div[class*="messageContent"] elements
\*   markup    the texts of its div[class*="markup"] elements
\*   atts      the href of each a[class*="imageWrapper"], a[class*="attachment"]
\*             element, "" when it has none
\*   raises_at the position in atts at which get_attribute('href') raises, or 0
\*   links     the a[href] targets that pass the CDN filter of lines 147-152
\*   imgs      the img[src] targets that pass the CDN filter of lines 158-162
Elements ==
    {e \in [id : {None, 1}, stale : BOOLEAN,
            contents : SeqUpTo(Texts, MaxContent), markup : SeqUpTo(Texts, 1),
            atts : SeqUpTo({"", "a", "b"}, MaxAtt), raises_at : 0..MaxAtt,
            links : SeqUpTo({"a", "c"}, MaxLink), imgs : SeqUpTo({"a"}, 1)] :
        /\ e.raises_at <= Len(e.atts)
        /\ e.stale => e.contents = <<>> /\ e.markup = <<>> /\ e.atts = <<>>
                         /\ e.links = <<>> /\ e.imgs = <<>>}

\* line 100: "[无法获取消息内容]"
Unavailable == "[unavailable]"
\* line 178: f"[附件 {len(attachments)} 个]"
AttachmentPlaceholder(k) == "[attachments " \o ToString(k) \o "]"

\* lines 93-100
extract_content(e) ==
    IF e.contents # <<>> THEN e.contents[Len(e.contents)] ELSE Unavailable

\* lines 138-165: the links, and the images only when there is no link
extract_cdn_links(e) == IF e.links # <<>> THEN e.links ELSE e.imgs

\* line 131: [x for x in attachments if not (x in seen or seen.add(x))]
RECURSIVE Deduplicated(_, _)
Deduplicated(xs, seen) ==
    IF xs = <<>> THEN <<>>
    ELSE IF Head(xs) \in seen THEN Deduplicated(Tail(xs), seen)
    ELSE <<Head(xs)>> \o Deduplicated(Tail(xs), seen \cup {Head(xs)})

\* lines 115-135: an exception inside the try returns the list as it is then
extract_attachments(e) ==
    LET read == IF e.raises_at = 0 THEN e.atts ELSE SubSeq(e.atts, 1, e.raises_at - 1)
        hrefs == SelectSeq(read, LAMBDA h : h # "")
    IN  IF e.raises_at # 0 THEN hrefs
        ELSE Deduplicated(IF hrefs = <<>> THEN extract_cdn_links(e) ELSE hrefs, {})

\* lines 168-179
finalize_content(content, attachments, e) ==
    IF content = Unavailable \/ Blank(content)
    THEN LET c == IF e.markup # <<>> /\ ~Blank(e.markup[Len(e.markup)])
                  THEN e.markup[Len(e.markup)] ELSE content
         IN  IF Blank(c) /\ attachments # <<>>
             THEN AttachmentPlaceholder(Len(attachments)) ELSE c
    ELSE content

\* line 48: return None
NoMessage == [returned |-> FALSE, id |-> None, content |-> "", attachments |-> <<>>]

\* lines 16-48
parse_message(e) ==
    IF e.stale THEN NoMessage
    ELSE LET attachments == extract_attachments(e)
         IN  [returned |-> TRUE,
              id |-> e.id,
              content |-> finalize_content(extract_content(e), attachments, e),
              attachments |-> attachments]

\* ---- the author of a message (discord_parser.py, lines 50-90)

\* what find_element('h3[class*="header"] span[class*="username"]') gives for a
\* node: no such element (or a stale node), the element with its text, or another
\* error of the driver (WebDriverException, a timeout, a lost session)
NoHeader == [present |-> FALSE, text |-> "", error |-> FALSE]
Header(t) == [present |-> TRUE, text |-> t, error |-> FALSE]
HeaderError == [present |-> FALSE, text |-> "", error |-> TRUE]

\* the preceding sibling at position i of the list has no header, a header with an
\* empty text, or a header with a name of its own
SiblingKinds == {"none", "empty", "named"}
SiblingName(i) == "user" \o ToString(i)
SiblingHeader(prev, i) ==
    IF prev[i] = "none" THEN NoHeader
    ELSE IF prev[i] = "empty" THEN Header("")
    ELSE Header(SiblingName(i))

\* a message node as _extract_username reads it:
\*   header  its own username element
\*   prev    its preceding sibling message nodes, in document order
\*   aria    the part of its aria-label before the first comma, stripped; "" when
\*           the attribute is absent or empty
NamedElements ==
    [header : {NoHeader, Header(""), Header("Zed"), HeaderError},
     prev : SeqUpTo(SiblingKinds, MaxPrev),
     aria : {"", "Carol"}]

\* line 52, 62: "未知用户"
UnknownUser == "[unknown user]"

LookbackWindow_all(prev) == 1..Len(prev)
\* line 70: prev_items[-8:], as positions of prev
LookbackWindow(prev) ==
    {i \in 1..Len(prev) : i > Len(prev) - Lookback}

\* lines 70-76: reversed(...): the last position of the window whose header has a
\* text, or 0
NearestNamed(prev, window) ==
    LET named == {i \in window : SiblingHeader(prev, i).present
                                   /\ SiblingHeader(prev, i).text # ""}
    IN  IF named = {} THEN 0 ELSE CHOOSE i \in named : \A j \in named : i >= j

\* lines 65-79: the name, or "" for None
trace_back_username(e) ==
    LET i == NearestNamed(e.prev, LookbackWindow(e.prev))
    IN  IF i = 0 THEN "" ELSE SiblingHeader(e.prev, i).text

\* lines 82-90: the name, or "" for None
extract_username_from_aria(e) == e.aria

\* line 58: the except clause names NoSuchElementException and
\* StaleElementReferenceException only: any other error leaves _extract_username
UsernameRaises(e) == e.header.error

\* lines 51-62
extract_username(e) ==
    IF e.header.present THEN e.header.text
    ELSE IF trace_back_username(e) # "" THEN trace_back_username(e)
    ELSE IF extract_username_from_aria(e) # "" THEN extract_username_from_aria(e)
    ELSE UnknownUser

\* ---- the state after construction, with the browser started and logged in
\* by the caller (init_chrome, login_discord); every channel has a first message
Constructed ==
    /\ channel_urls \in AllChannels
    /\ last_message_ids = [c \in AllChannels |-> None]
    /\ channel_handles = [c \in AllChannels |-> None]
    /\ channel_errors = [c \in AllChannels |-> 0]
    /\ channel_idx = 1
    /\ messages = <<>>
    /\ new_messages = <<>>
    /\ idx = 0
    /\ msg_obj = None
    /\ alive = TRUE
    /\ windows = <<1>>
    /\ current = 1
    /\ tabUrl = [h \in Handles |-> None]
    /\ posted = [c \in AllChannels |-> 1]
    /\ dom = [c \in AllChannels |-> [lo |-> 1, hi |-> 1]]
    /\ events = 0
    /\ kind = "none"
    /\ cursor0 = None
    /\ handed = <<>>
    /\ skipped = {}
    /\ lastHanded = [c \in AllChannels |-> [id |-> None, res |-> "none"]]
    /\ failed = [c \in AllChannels |-> {}]
    /\ refired = [c \in AllChannels |-> {}]
    /\ streak = [c \in AllChannels |-> 0]
    /\ recovered = [c \in AllChannels |-> FALSE]
    /\ visited = <<>>
    /\ signal = "none"
    /\ parsed = NoMessage
    /\ username = ""
    /\ error_count = 0

\* monitor_messages is entered with no node under extraction
Init ==
    /\ Constructed
    /\ pc = "switch"
    /\ element = None

\* ---- the environment: it acts between two channel polls

\* an environment event or a failure that nothing in the state forces is one of at
\* most MaxEvents of a run; a failure the state forces (a lost browser, a closed
\* window, an empty page) is not counted
Event(forced) == IF forced THEN events' = events
                 ELSE events < MaxEvents /\ events' = events + 1

\* a message is posted in channel c; a page scrolled to the bottom renders it
Post(c) ==
    /\ pc = "switch"
    /\ c \in Channels
    /\ posted[c] < MaxMsg
    /\ posted' = [posted EXCEPT ![c] = @ + 1]
    /\ dom' = [dom EXCEPT ![c] =
                 IF dom[c].hi = posted[c]
                 THEN [lo |-> IF dom[c] = EmptyDom THEN posted[c] + 1 ELSE dom[c].lo,
                       hi |-> posted[c] + 1]
                 ELSE dom[c]]
    /\ Event(FALSE)
    /\ UNCHANGED <<progVars, alive, windows, current, tabUrl, histVars>>
    /\ UNCHANGED auxVars

\* the page of channel c renders another window of the history (virtualization,
\* reload, scroll position)
Render(c) ==
    /\ pc = "switch"
    /\ c \in Channels
    /\ \E d \in Doms(posted[c]) : d # dom[c] /\ dom' = [dom EXCEPT ![c] = d]
    /\ Event(FALSE)
    /\ UNCHANGED <<progVars, alive, windows, current, tabUrl, posted, histVars>>
    /\ UNCHANGED auxVars

\* the browser process is lost: every driver call raises from now on
BrowserCrash ==
    /\ pc = "switch"
    /\ alive
    /\ Event(FALSE)
    /\ alive' = FALSE
    /\ windows' = <<>>
    /\ current' = None
    /\ UNCHANGED <<progVars, tabUrl, posted, dom, histVars>>
    /\ UNCHANGED auxVars

\* ---- switch_to_channel (lines 118-188), called for the channel of the for loop

HandleValid_cached(c) == channel_handles[c] # None
\* line 124: handle and handle in self.driver.window_handles
HandleValid(c) == channel_handles[c] # None /\ channel_handles[c] \in Range(windows)

ReusesCurrentPage_unbound(c) == channel_handles[c] = None
\* line 156: not self.channel_handles
ReusesCurrentPage(c) == \A d \in AllChannels : channel_handles[d] = None

\* a handle the driver can give to a new window: handles are opaque and unique,
\* so one that no window and no cache entry uses stands for a new one
FreshHandles == Handles \ (Range(windows) \cup {channel_handles[c] : c \in AllChannels})
FreshHandle == CHOOSE h \in FreshHandles : \A g \in FreshHandles : h <= g

\* some path of switch_to_channel can return True in this state
SwitchCanSucceed(c) ==
    /\ alive
    /\ \/ HandleValid(c)
       \/ ReusesCurrentPage(c) /\ current \in Range(windows)
       \/ ~ReusesCurrentPage(c) /\ windows # <<>> /\ FreshHandles # {}

HandlesAfterBind_all(c, h) == [d \in AllChannels |-> h]
\* lines 159, 183: self.channel_handles[channel_url] = self.driver.current_window_handle
HandlesAfterBind(c, h) == [channel_handles EXCEPT ![c] = h]

\* leaving switch_to_channel: the poll goes on (True) or raises (False, line 214)
Switched(c, ok, forced) ==
    /\ pc' = IF ok THEN "enumerate" ELSE "error"
    /\ recovered' = [recovered EXCEPT ![c] = FALSE]
    /\ visited' = Append(visited, c)
    /\ UNCHANGED <<channel_urls, last_message_ids, channel_errors, channel_idx, messages,
                   new_messages, idx, msg_obj, alive, posted, dom, kind, cursor0, handed,
                   skipped, lastHanded, failed, refired, streak>>
    /\ Event(forced)

ActiveAfterSwitch_kept(h) == current
\* lines 131-134: the active window is handle, by switch_to.window if it was not
ActiveAfterSwitch(h) == h

\* lines 122-136: the cached handle is a live tab
SwitchCached ==
    /\ pc = "switch"
    /\ alive
    /\ HandleValid(channel_idx)
    /\ current' = ActiveAfterSwitch(channel_handles[channel_idx])
    /\ UNCHANGED <<channel_handles, windows, tabUrl>>
    /\ Switched(channel_idx, TRUE, TRUE)
    /\ UNCHANGED auxVars

\* lines 131-134, 186-188: the cached handle is a live tab, another tab is active
\* and driver.switch_to.window(handle) raises: nothing is changed
SwitchCachedFails ==
    /\ pc = "switch"
    /\ alive
    /\ HandleValid(channel_idx)
    /\ current # channel_handles[channel_idx]
    /\ UNCHANGED <<channel_handles, windows, current, tabUrl>>
    /\ Switched(channel_idx, FALSE, FALSE)
    /\ UNCHANGED auxVars

\* lines 156-161: no handle is recorded for any channel: navigate the current page
SwitchReuse ==
    /\ pc = "switch"
    /\ alive
    /\ ~HandleValid(channel_idx)
    /\ ReusesCurrentPage(channel_idx)
    /\ current \in Range(windows)
    /\ tabUrl' = [tabUrl EXCEPT ![current] = channel_idx]
    /\ channel_handles' = HandlesAfterBind(channel_idx, current)
    /\ UNCHANGED <<windows, current>>
    /\ Switched(channel_idx, TRUE, TRUE)
    /\ UNCHANGED auxVars

\* lines 163-185: open a new tab, navigate it, record its handle
SwitchNewTab ==
    /\ pc = "switch"
    /\ alive
    /\ ~HandleValid(channel_idx)
    /\ ~ReusesCurrentPage(channel_idx)
    /\ windows # <<>>
    /\ FreshHandles # {}
    /\ windows' = Append(windows, FreshHandle)
    /\ current' = FreshHandle
    /\ tabUrl' = [tabUrl EXCEPT ![FreshHandle] = channel_idx]
    /\ channel_handles' = HandlesAfterBind(channel_idx, FreshHandle)
    /\ Switched(channel_idx, TRUE, TRUE)
    /\ UNCHANGED auxVars

\* lines 181-182, 186-188: the new tab opens, driver.get raises: the tab stays open
SwitchNewTabNavFails ==
    /\ pc = "switch"
    /\ alive
    /\ ~HandleValid(channel_idx)
    /\ ~ReusesCurrentPage(channel_idx)
    /\ windows # <<>>
    /\ FreshHandles # {}
    /\ windows' = Append(windows, FreshHandle)
    /\ current' = FreshHandle
    /\ tabUrl' = [tabUrl EXCEPT ![FreshHandle] = None]
    /\ UNCHANGED channel_handles
    /\ Switched(channel_idx, FALSE, FALSE)
    /\ UNCHANGED auxVars

\* lines 186-188: a driver call raises before anything is opened or recorded
\* (window_handles of a lost browser, driver.get, switch_to.new_window);
\* lines 169-177 first leave a closed current window for the first open one
SwitchFails ==
    /\ pc = "switch"
    /\ ~alive \/ ~HandleValid(channel_idx)
    /\ current' = IF /\ alive
                     /\ ~ReusesCurrentPage(channel_idx)
                     /\ current \notin Range(windows)
                     /\ windows # <<>>
                  THEN Head(windows) ELSE current
    /\ UNCHANGED <<channel_handles, windows, tabUrl>>
    /\ Switched(channel_idx, FALSE, ~SwitchCanSucceed(channel_idx))
    /\ UNCHANGED auxVars

\* ---- the poll of the channel (lines 216-286)

Polled == channel_idx

\* the active tab shows a channel page with at least one message node
CanEnumerate ==
    /\ alive
    /\ current \in Range(windows)
    /\ tabUrl[current] # None
    /\ dom[tabUrl[current]] # EmptyDom

\* lines 216-223 raise: the wait times out or a driver call raises; also a stale
\* node in the scan of lines 234-243
EnumerateFails ==
    /\ pc = "enumerate"
    /\ pc' = "error"
    /\ Event(~CanEnumerate)
    /\ UNCHANGED <<channel_urls, last_message_ids, channel_handles, channel_errors,
                   channel_idx, messages, new_messages, idx, msg_obj, alive, windows,
                   current, tabUrl, posted, dom, histVars>>
    /\ UNCHANGED auxVars

\* lines 216-246: the nodes of the active tab are enumerated and the new ones selected
Enumerate ==
    /\ pc = "enumerate"
    /\ UNCHANGED visited
    /\ CanEnumerate
    /\ LET ms == Nodes(dom[tabUrl[current]])
           sel == Selection(ms, last_message_ids[Polled])
       IN  /\ messages' = ms
           /\ new_messages' = sel.new
           /\ kind' = sel.kind
           /\ idx' = IF sel.new = <<>> THEN 0 ELSE 1
           /\ pc' = IF sel.new = <<>> THEN "done" ELSE "extract"
           /\ refired' = [refired EXCEPT ![Polled] =
                             IF sel.kind = "fallback" THEN failed[Polled] ELSE @]
    /\ cursor0' = last_message_ids[Polled]
    /\ UNCHANGED <<channel_urls, last_message_ids, channel_handles, channel_errors,
                   channel_idx, msg_obj, envVars, handed, skipped, lastHanded, failed,
                   streak, recovered>>
    /\ UNCHANGED auxVars

NextNode_abort == [pc |-> "done", idx |-> idx]
\* the inner for loop moves to the next new node, or ends
NextNode == IF idx < Len(new_messages) THEN [pc |-> "extract", idx |-> idx + 1]
            ELSE [pc |-> "done", idx |-> idx]

\* line 267: parse_message returns a message carrying the node's identifier
Extract ==
    /\ pc = "extract"
    /\ msg_obj' = new_messages[idx]
    /\ pc' = "deliver"
    /\ UNCHANGED <<channel_urls, last_message_ids, channel_handles, channel_errors,
                   channel_idx, messages, new_messages, idx, envVars, histVars>>
    /\ UNCHANGED auxVars

\* lines 267-269: parse_message returns None (the node went stale): the node is skipped
ExtractFails ==
    /\ pc = "extract"
    /\ UNCHANGED visited
    /\ msg_obj' = None
    /\ pc' = NextNode.pc
    /\ idx' = NextNode.idx
    /\ skipped' = skipped \cup {new_messages[idx]}
    /\ Event(FALSE)
    /\ UNCHANGED <<channel_urls, last_message_ids, channel_handles, channel_errors,
                   channel_idx, messages, new_messages, alive, windows, current, tabUrl,
                   posted, dom, kind, cursor0, handed, lastHanded, failed, refired, streak,
                   recovered>>
    /\ UNCHANGED auxVars

\* what the loop does with the callback's return value: nothing (line 278)
AfterCallback_checked(res) == IF res = "fail" THEN "error" ELSE "advance"
AfterCallback(res) == "advance"

\* line 278: self.on_new_message(msg_obj) returns (success or failure) or raises
Deliver(res) ==
    /\ pc = "deliver"
    /\ UNCHANGED visited
    /\ handed' = Append(handed, [id |-> msg_obj, res |-> res])
    /\ lastHanded' = [lastHanded EXCEPT ![Polled] =
                        [id |-> msg_obj, res |-> IF res = "raise" THEN "raise" ELSE "ret"]]
    /\ IF res = "fail"
       THEN /\ failed' = [failed EXCEPT ![Polled] = @ \cup {msg_obj}]
            /\ refired' = [refired EXCEPT ![Polled] = @ \ {msg_obj}]
       ELSE UNCHANGED <<failed, refired>>
    /\ pc' = IF res = "raise" THEN "error" ELSE AfterCallback(res)
    /\ Event(res = "ok")
    /\ UNCHANGED <<channel_urls, last_message_ids, channel_handles, channel_errors,
                   channel_idx, messages, new_messages, idx, msg_obj, alive, windows,
                   current, tabUrl, posted, dom, kind, cursor0, skipped, streak,
                   recovered>>
    /\ UNCHANGED auxVars

DeliverOk == Deliver("ok")
DeliverFailure == Deliver("fail")
DeliverRaises == Deliver("raise")

AdvancedCursor_never(cur, id) == cur
AdvancedCursor_batched(cur, id) == IF idx = Len(new_messages) THEN id ELSE cur
\* line 280: self.last_message_ids[channel_url] = msg_obj.id
AdvancedCursor(cur, id) == id

Advance ==
    /\ pc = "advance"
    /\ last_message_ids' = [last_message_ids EXCEPT ![Polled] = AdvancedCursor(@, msg_obj)]
    /\ pc' = NextNode.pc
    /\ idx' = NextNode.idx
    /\ UNCHANGED <<channel_urls, channel_handles, channel_errors, channel_idx, messages,
                   new_messages, msg_obj, envVars, histVars>>
    /\ UNCHANGED auxVars

NextChannel_endRound == [pc |-> "sleep", channel_idx |-> channel_idx]
\* the for loop over the channels moves on; after the last channel the round sleeps
NextChannel == IF channel_idx < channel_urls
               THEN [pc |-> "switch", channel_idx |-> channel_idx + 1]
               ELSE [pc |-> "sleep", channel_idx |-> channel_idx]

\* the locals of the poll are dropped
PollLocalsCleared ==
    /\ messages' = <<>>
    /\ new_messages' = <<>>
    /\ idx' = 0
    /\ msg_obj' = None
    /\ kind' = "none"
    /\ cursor0' = None
    /\ handed' = <<>>
    /\ skipped' = {}

\* line 286: the poll succeeded: channel_errors[channel_url] = 0
PollOk ==
    /\ pc = "done"
    /\ UNCHANGED visited
    /\ channel_errors' = [channel_errors EXCEPT ![Polled] = 0]
    /\ streak' = [streak EXCEPT ![Polled] = 0]
    /\ pc' = NextChannel.pc
    /\ channel_idx' = NextChannel.channel_idx
    /\ PollLocalsCleared
    /\ UNCHANGED <<channel_urls, last_message_ids, channel_handles, envVars, lastHanded,
                   failed, refired, recovered>>
    /\ UNCHANGED auxVars

\* ---- error handling and recovery (lines 288-337)

ThresholdReached_late(n) == n > max_errors
ThresholdReached_early(n) == n >= max_errors - 1
\* line 293: current_errors >= max_errors
ThresholdReached(n) == n >= max_errors

\* line 298: channel_errors[channel_url] = 0
ErrorsAfterReload(n) == 0

ErrorCounted_all(c) == [d \in AllChannels |-> channel_errors[d] + 1]
\* line 289: channel_errors[channel_url] += 1
ErrorCounted(c) == [channel_errors EXCEPT ![c] = @ + 1]

\* lines 288-293, 337: the poll raised: count the error, reload at the threshold
PollError ==
    /\ pc = "error"
    /\ UNCHANGED visited
    /\ channel_errors' = ErrorCounted(Polled)
    /\ streak' = [streak EXCEPT ![Polled] = IF @ > max_errors THEN @ ELSE @ + 1]
    /\ IF ThresholdReached(channel_errors[Polled] + 1)
       THEN pc' = "reload" /\ UNCHANGED channel_idx
       ELSE pc' = NextChannel.pc /\ channel_idx' = NextChannel.channel_idx
    /\ PollLocalsCleared
    /\ UNCHANGED <<channel_urls, last_message_ids, channel_handles, envVars, lastHanded,
                   failed, refired, recovered>>
    /\ UNCHANGED auxVars

\* lines 295-298: driver.refresh() reloads the active tab; the count is reset
ReloadOk ==
    /\ pc = "reload"
    /\ UNCHANGED visited
    /\ alive
    /\ current \in Range(windows)
    /\ channel_errors' = [channel_errors EXCEPT ![Polled] = ErrorsAfterReload(@)]
    /\ streak' = [streak EXCEPT ![Polled] = 0]
    /\ pc' = NextChannel.pc
    /\ channel_idx' = NextChannel.channel_idx
    /\ UNCHANGED <<channel_urls, last_message_ids, channel_handles, messages, new_messages,
                   idx, msg_obj, envVars, kind, cursor0, handed, skipped, lastHanded,
                   failed, refired, recovered>>
    /\ UNCHANGED auxVars

\* lines 299-300: driver.refresh() raises
ReloadFails ==
    /\ pc = "reload"
    /\ pc' = "classify"
    /\ Event(~(alive /\ current \in Range(windows)))
    /\ UNCHANGED <<channel_urls, last_message_ids, channel_handles, channel_errors,
                   channel_idx, messages, new_messages, idx, msg_obj, alive, windows,
                   current, tabUrl, posted, dom, histVars>>
    /\ UNCHANGED auxVars

is_fatal_never == FALSE
\* lines 303-308: window_handles raises or is empty
is_fatal == ~alive \/ windows = <<>>

CursorsAfterRestart_reset == [c \in AllChannels |-> None]
\* lines 86-98: restart_browser makes no assignment to self.last_message_ids
CursorsAfterRestart == last_message_ids

HandlesAfterRestart_kept == channel_handles
\* line 95: self.channel_handles = {}
HandlesAfterRestart == [c \in AllChannels |-> None]

\* lines 310-313, 86-98: restart_browser, then break: the round ends
FatalRestart ==
    /\ pc = "classify"
    /\ UNCHANGED visited
    /\ is_fatal
    /\ alive' = TRUE
    /\ windows' = <<1>>
    /\ current' = 1
    /\ tabUrl' = [h \in Handles |-> None]
    /\ channel_handles' = HandlesAfterRestart
    /\ recovered' = [c \in AllChannels |-> FALSE]
    /\ pc' = "sleep"
    /\ last_message_ids' = CursorsAfterRestart
    /\ UNCHANGED <<channel_urls, channel_errors, channel_idx, messages,
                   new_messages, idx, msg_obj, posted, dom, events, kind, cursor0, handed,
                   skipped, lastHanded, failed, refired, streak>>
    /\ UNCHANGED auxVars

\* lines 312, 95-97: init_chrome or login_discord raises inside the except block:
\* the exception leaves monitor_messages
RestartFails ==
    /\ pc = "classify"
    /\ UNCHANGED visited
    /\ is_fatal
    /\ alive' = FALSE
    /\ windows' = <<>>
    /\ current' = None
    /\ tabUrl' = [h \in Handles |-> None]
    /\ channel_handles' = HandlesAfterRestart
    /\ recovered' = [c \in AllChannels |-> FALSE]
    /\ pc' = "stopped"
    /\ Event(FALSE)
    /\ last_message_ids' = CursorsAfterRestart
    /\ UNCHANGED <<channel_urls, channel_errors, channel_idx, messages,
                   new_messages, idx, msg_obj, posted, dom, kind, cursor0, handed,
                   skipped, lastHanded, failed, refired, streak>>
    /\ UNCHANGED auxVars

HandlesAfterUnbind_all(c) == [d \in AllChannels |-> None]
\* lines 318-319: del self.channel_handles[channel_url]
HandlesAfterUnbind(c) == [channel_handles EXCEPT ![c] = None]

\* lines 315-335: the browser is alive: drop the handle, close the active tab
\* (closed says whether driver.close() worked), reset the count, go to the first window
TabLocalRecovery(closed) ==
    /\ pc = "classify"
    /\ UNCHANGED visited
    /\ ~is_fatal
    /\ closed => current \in Range(windows)
    /\ Event(closed \/ current \notin Range(windows))
    /\ channel_handles' = HandlesAfterUnbind(Polled)
    /\ LET ws == IF closed THEN Without(windows, current) ELSE windows
       IN  /\ windows' = ws
           /\ current' = IF ws # <<>> THEN Head(ws) ELSE None
    /\ tabUrl' = IF closed THEN [tabUrl EXCEPT ![current] = None] ELSE tabUrl
    /\ channel_errors' = [channel_errors EXCEPT ![Polled] = 0]
    /\ recovered' = [recovered EXCEPT ![Polled] = TRUE]
    /\ pc' = NextChannel.pc
    /\ channel_idx' = NextChannel.channel_idx
    /\ UNCHANGED <<channel_urls, last_message_ids, messages, new_messages, idx, msg_obj,
                   alive, posted, dom, kind, cursor0, handed, skipped, lastHanded, failed,
                   refired, streak>>

TabLocalRecover(closed) == TabLocalRecovery(closed) /\ UNCHANGED auxVars

TabLocalClosed == TabLocalRecover(TRUE)
TabLocalCloseFails == TabLocalRecover(FALSE)

\* line 339: time.sleep(check_interval), then the next round from the first channel
Sleep ==
    /\ pc = "sleep"
    /\ pc' = "switch"
    /\ channel_idx' = 1
    /\ visited' = <<>>
    /\ UNCHANGED <<channel_urls, last_message_ids, channel_handles, channel_errors,
                   messages, new_messages, idx, msg_obj, envVars, kind, cursor0, handed,
                   skipped, lastHanded, failed, refired, streak, recovered>>
    /\ UNCHANGED auxVars

Next ==
    \/ \E c \in AllChannels : Post(c)
    \/ \E c \in AllChannels : Render(c)
    \/ BrowserCrash
    \/ SwitchCached
    \/ SwitchCachedFails
    \/ SwitchReuse
    \/ SwitchNewTab
    \/ SwitchNewTabNavFails
    \/ SwitchFails
    \/ EnumerateFails
    \/ Enumerate
    \/ Extract
    \/ ExtractFails
    \/ DeliverOk
    \/ DeliverFailure
    \/ DeliverRaises
    \/ Advance
    \/ PollOk
    \/ PollError
    \/ ReloadOk
    \/ ReloadFails
    \/ FatalRestart
    \/ RestartFails
    \/ TabLocalClosed
    \/ TabLocalCloseFails
    \/ Sleep

Spec == Init /\ [][Next]_vars

\* the steps of monitor_messages: everything but the events of the environment
ProgNext ==
    \/ SwitchCached
    \/ SwitchCachedFails
    \/ SwitchReuse
    \/ SwitchNewTab
    \/ SwitchNewTabNavFails
    \/ SwitchFails
    \/ EnumerateFails
    \/ Enumerate
    \/ Extract
    \/ ExtractFails
    \/ DeliverOk
    \/ DeliverFailure
    \/ DeliverRaises
    \/ Advance
    \/ PollOk
    \/ PollError
    \/ ReloadOk
    \/ ReloadFails
    \/ FatalRestart
    \/ RestartFails
    \/ TabLocalClosed
    \/ TabLocalCloseFails
    \/ Sleep

\* ---- an interrupt signal (KeyboardInterrupt) while monitor_messages runs

Running == pc \notin {"stopped", "interrupted", "exited"}

\* the except clauses of lines 186, 262, 288, 299, 307 name Exception, which a
\* KeyboardInterrupt is not: it leaves monitor_messages
Interrupt ==
    /\ Running
    /\ signal = "none"
    /\ signal' = "raised"
    /\ pc' = "interrupted"
    /\ UNCHANGED <<channel_urls, last_message_ids, channel_handles, channel_errors,
                   channel_idx, messages, new_messages, idx, msg_obj, envVars, histVars,
                   element, parsed, username, error_count>>

\* lines 322-325, 331-335: the signal is raised inside driver.close() or the
\* switch to the first window: the bare except takes it and the recovery goes on
InterruptSwallowed ==
    /\ signal = "none"
    /\ signal' = "raised"
    /\ \E closed \in BOOLEAN : TabLocalRecovery(closed)
    /\ UNCHANGED <<element, parsed, username, error_count>>

\* discord_to_wechat.py lines 174-179, listener lines 341-344: run() takes the
\* KeyboardInterrupt and its finally clause quits the browser
Teardown ==
    /\ pc = "interrupted"
    /\ pc' = "exited"
    /\ alive' = FALSE
    /\ windows' = <<>>
    /\ current' = None
    /\ UNCHANGED <<channel_urls, last_message_ids, channel_handles, channel_errors,
                   channel_idx, messages, new_messages, idx, msg_obj, tabUrl, posted, dom,
                   events, histVars, auxVars>>

IntNext ==
    \/ Next
    \/ Interrupt
    \/ InterruptSwallowed
    \/ Teardown

IntSpec == Init /\ [][IntNext]_vars

\* ---- restart_browser with the login wait of login_discord (lines 86-98, 56-84)

\* lines 96-97, 65-73: the new session shows the login page (the saved login is
\* gone): login_discord polls current_url until somebody has logged in
RestartAwaitsLogin ==
    /\ pc = "classify"
    /\ is_fatal
    /\ alive' = TRUE
    /\ windows' = <<1>>
    /\ current' = 1
    /\ tabUrl' = [h \in Handles |-> None]
    /\ channel_handles' = HandlesAfterRestart
    /\ recovered' = [c \in AllChannels |-> FALSE]
    /\ pc' = "login"
    /\ Event(FALSE)
    /\ last_message_ids' = CursorsAfterRestart
    /\ UNCHANGED <<channel_urls, channel_errors, channel_idx, messages,
                   new_messages, idx, msg_obj, posted, dom, kind, cursor0, handed,
                   skipped, lastHanded, failed, refired, streak, visited>>
    /\ UNCHANGED auxVars

\* lines 72-84, 98, 313: a person has logged in: the wait ends, restart_browser
\* returns and the round is abandoned
LoginCompleted ==
    /\ pc = "login"
    /\ pc' = "sleep"
    /\ UNCHANGED <<channel_urls, last_message_ids, channel_handles, channel_errors,
                   channel_idx, messages, new_messages, idx, msg_obj, envVars, histVars>>
    /\ UNCHANGED auxVars

WaitNext ==
    \/ Next
    \/ RestartAwaitsLogin
    \/ LoginCompleted

\* the steps of the loop are taken when they can be; nothing makes a person log in
WaitSpec == Init /\ [][WaitNext]_vars /\ WF_vars(ProgNext)

\* ---- the earlier listener (src/discord_listener.py) that discord_to_wechat.py
\* imports: its monitor_messages keeps one error counter for all the channels

\* error_count and the consecutive failures of a channel are counted up to MaxCount
Counted(n) == IF n < MaxCount THEN n + 1 ELSE n

\* lines 423-426: switch_to_channel returns False: continue, nothing is counted
LegacySwitchFails ==
    /\ pc = "switch"
    /\ streak' = [streak EXCEPT ![Polled] = Counted(@)]
    /\ pc' = NextChannel.pc
    /\ channel_idx' = NextChannel.channel_idx
    /\ UNCHANGED error_count
    /\ UNCHANGED <<channel_urls, last_message_ids, channel_handles, channel_errors,
                   messages, new_messages, idx, msg_obj, envVars, kind, cursor0, handed,
                   skipped, lastHanded, failed, refired, recovered, visited>>
    /\ UNCHANGED <<signal, element, parsed, username>>

\* line 423: switch_to_channel returns True
LegacySwitched ==
    /\ pc = "switch"
    /\ pc' = "enumerate"
    /\ UNCHANGED <<channel_urls, last_message_ids, channel_handles, channel_errors,
                   channel_idx, messages, new_messages, idx, msg_obj, envVars, histVars>>
    /\ UNCHANGED auxVars

\* lines 428-498: the poll runs to its end: the nodes selected as new (lines 439-468,
\* the same selection) are handed over, the cursor is the last of them (line 491),
\* and error_count = 0
LegacyPollOk ==
    /\ pc = "enumerate"
    /\ LET sel == Selection(Nodes(dom[Polled]), last_message_ids[Polled])
       IN  last_message_ids' = [last_message_ids EXCEPT ![Polled] =
                                   IF sel.new = <<>> THEN @ ELSE Last(sel.new)]
    /\ error_count' = 0
    /\ streak' = [streak EXCEPT ![Polled] = 0]
    /\ pc' = NextChannel.pc
    /\ channel_idx' = NextChannel.channel_idx
    /\ UNCHANGED <<channel_urls, channel_handles, channel_errors,
                   messages, new_messages, idx, msg_obj, envVars, kind, cursor0, handed,
                   skipped, lastHanded, failed, refired, recovered, visited>>
    /\ UNCHANGED <<signal, element, parsed, username>>

\* lines 500-504, 513: the poll raises: error_count += 1, reload at max_errors
LegacyPollError ==
    /\ pc = "enumerate"
    /\ error_count' = Counted(error_count)
    /\ streak' = [streak EXCEPT ![Polled] = Counted(@)]
    /\ IF error_count' >= max_errors
       THEN pc' = "reload" /\ UNCHANGED channel_idx
       ELSE pc' = NextChannel.pc /\ channel_idx' = NextChannel.channel_idx
    /\ UNCHANGED <<channel_urls, last_message_ids, channel_handles, channel_errors,
                   messages, new_messages, idx, msg_obj, envVars, kind, cursor0, handed,
                   skipped, lastHanded, failed, refired, recovered, visited>>
    /\ UNCHANGED <<signal, element, parsed, username>>

\* lines 506-509, 513: driver.refresh() returns: error_count = 0
LegacyReloadOk ==
    /\ pc = "reload"
    /\ error_count' = 0
    /\ streak' = [streak EXCEPT ![Polled] = 0]
    /\ pc' = NextChannel.pc
    /\ channel_idx' = NextChannel.channel_idx
    /\ UNCHANGED <<channel_urls, last_message_ids, channel_handles, channel_errors,
                   messages, new_messages, idx, msg_obj, envVars, kind, cursor0, handed,
                   skipped, lastHanded, failed, refired, recovered, visited>>
    /\ UNCHANGED <<signal, element, parsed, username>>

\* lines 510-513: driver.refresh() raises: the bare except logs, the count stays
LegacyReloadFails ==
    /\ pc = "reload"
    /\ pc' = NextChannel.pc
    /\ channel_idx' = NextChannel.channel_idx
    /\ UNCHANGED <<channel_urls, last_message_ids, channel_handles, channel_errors,
                   messages, new_messages, idx, msg_obj, envVars, histVars>>
    /\ UNCHANGED auxVars

\* line 516: time.sleep(self.check_interval), then the next round
LegacySleep ==
    /\ pc = "sleep"
    /\ pc' = "switch"
    /\ channel_idx' = 1
    /\ UNCHANGED <<channel_urls, last_message_ids, channel_handles, channel_errors,
                   messages, new_messages, idx, msg_obj, envVars, histVars>>
    /\ UNCHANGED auxVars

LegacyNext ==
    \/ LegacySwitchFails
    \/ LegacySwitched
    \/ LegacyPollOk
    \/ LegacyPollError
    \/ LegacyReloadOk
    \/ LegacyReloadFails
    \/ LegacySleep

LegacySpec == Init /\ [][LegacyNext]_vars

\* ---- parse_message on one node, and what lines 267-280 do with its result

ParserInit ==
    /\ Constructed
    /\ channel_urls = 1
    /\ pc = "parse"
    /\ element \in Elements

\* line 267
ParseMessage ==
    /\ pc = "parse"
    /\ parsed' = parse_message(element)
    /\ pc' = "parsed"
    /\ UNCHANGED <<channel_urls, last_message_ids, channel_handles, channel_errors,
                   channel_idx, messages, new_messages, idx, msg_obj, envVars, histVars,
                   signal, element, username, error_count>>

\* lines 269-280: the message is handed to the callback and the cursor is set
HandParsed ==
    /\ pc = "parsed"
    /\ UNCHANGED visited
    /\ parsed.returned
    /\ handed' = Append(handed, [id |-> parsed.id, res |-> "ok"])
    /\ last_message_ids' = [last_message_ids EXCEPT ![Polled] = AdvancedCursor(@, parsed.id)]
    /\ pc' = "handled"
    /\ UNCHANGED <<channel_urls, channel_handles, channel_errors, channel_idx, messages,
                   new_messages, idx, msg_obj, envVars, kind, cursor0, skipped, lastHanded,
                   failed, refired, streak, recovered, auxVars>>

\* line 269: parse_message returned None
SkipParsed ==
    /\ pc = "parsed"
    /\ ~parsed.returned
    /\ pc' = "handled"
    /\ UNCHANGED <<channel_urls, last_message_ids, channel_handles, channel_errors,
                   channel_idx, messages, new_messages, idx, msg_obj, envVars, histVars,
                   auxVars>>

ParserNext ==
    \/ ParseMessage
    \/ HandParsed
    \/ SkipParsed

ParserSpec == ParserInit /\ [][ParserNext]_vars

\* ---- _extract_username on one node (parse_message, line 22)

NamedInit ==
    /\ Constructed
    /\ channel_urls = 1
    /\ pc = "name"
    /\ element \in NamedElements

\* line 22; lines 46-48 when _extract_username raises: parse_message returns None
ExtractUsername ==
    /\ pc = "name"
    /\ username' = IF UsernameRaises(element) THEN username ELSE extract_username(element)
    /\ pc' = IF UsernameRaises(element) THEN "failed" ELSE "named"
    /\ UNCHANGED <<channel_urls, last_message_ids, channel_handles, channel_errors,
                   channel_idx, messages, new_messages, idx, msg_obj, envVars, histVars,
                   signal, element, parsed, error_count>>

NamedSpec == NamedInit /\ [][ExtractUsername]_vars

\* the loop is sequential code with bounded waits (lines 216, 297, 337, 339): a
\* step that can be taken is taken
LiveSpec == Init /\ [][Next]_vars /\ WF_vars(ProgNext)

\* ======================================================================
\* Properties
\* ======================================================================

\* the identifiers handed to the callback in this poll, in order
HandedIds == [i \in 1..Len(handed) |-> handed[i].id]
\* those whose callback returned
ReturnedIds == LET r == SelectSeq(handed, LAMBDA e : e.res # "raise")
               IN  [i \in 1..Len(r) |-> r[i].id]
\* the nodes of s whose extraction did not fail
NotSkipped(s) == SelectSeq(s, LAMBDA x : x \notin skipped)
\* the nodes of ms strictly after x
After(ms, x) == SubSeq(ms, Pos(ms, x) + 1, Len(ms))
\* a poll has enumerated its nodes and has not ended
InPoll == messages # <<>>
\* the poll ended: its loop ran to the end, or the callback raised
PollEnded == InPoll /\ pc \in {"done", "error"}
\* the nodes the inner loop has gone through
Processed == IF pc = "done" THEN new_messages
             ELSE IF pc \in {"error", "advance"} THEN SubSeq(new_messages, 1, idx)
             ELSE SubSeq(new_messages, 1, idx - 1)
\* this step is the callback invocation for msg_obj
DeliverStep == pc = "deliver" /\ pc' # "deliver"
\* this step is the switch_to_channel call for the channel of the loop
SwitchStep == pc = "switch" /\ pc' # "switch"

\* ---- C1
\* C1 (as claimed): per channel, the identifiers handed to the callback follow the
\* DOM order: each one is after the one handed before it, and an identifier is
\* handed again only when the cursor-lost fallback selected it.
C1_OrderedNoDuplicates ==
    [][DeliverStep /\ lastHanded[Polled].id # None
         => \/ msg_obj > lastHanded[Polled].id
            \/ msg_obj = lastHanded[Polled].id /\ kind = "fallback"]_vars

\* C1 (amended): an identifier that is not after the one handed before it is
\* handed only when the cursor-lost fallback selected it or when the callback
\* raised on the one handed before it.
C1_OrderedUnlessFallbackOrRaise ==
    [][DeliverStep /\ lastHanded[Polled].id # None
         => \/ msg_obj > lastHanded[Polled].id
            \/ kind = "fallback"
            \/ lastHanded[Polled].res = "raise"]_vars

\* a later poll hands over a node after the cursor of an earlier delivery
C1_Witness ==
    /\ pc = "advance"
    /\ kind = "after"
    /\ cursor0 # None
    /\ msg_obj > cursor0

\* ---- C2
\* C2: a node selected as new is never silently omitted: when the poll ends, every
\* selected node was handed to the callback or the cursor has not advanced to a
\* node selected after it.
C2_NoSilentOmission ==
    (InPoll /\ pc = "done") =>
        \A k \in 1..Len(new_messages) :
            \/ new_messages[k] \in Range(HandedIds)
            \/ \A j \in (k + 1)..Len(new_messages) :
                   last_message_ids[Polled] # new_messages[j]

\* ---- C3
\* C3 (as claimed): a poll with a null cursor hands over exactly one message, the
\* newest node.
C3_FirstPollDeliversNewest ==
    (PollEnded /\ cursor0 = None) => HandedIds = <<Last(messages)>>

\* C3 (amended): a poll with a null cursor selects exactly the newest node; it
\* hands over that node and no other, unless its extraction fails, and then it
\* hands over nothing.
C3_FirstPollSelectsNewest ==
    (InPoll /\ cursor0 = None) =>
        /\ new_messages = <<Last(messages)>>
        /\ HandedIds = NotSkipped(Processed)
        /\ PollEnded => HandedIds = NotSkipped(<<Last(messages)>>)

\* a first poll with two nodes visible has handed over the newest one only
C3_Witness ==
    /\ pc = "done"
    /\ cursor0 = None
    /\ Len(messages) >= 2
    /\ HandedIds = <<Last(messages)>>

\* ---- C4
\* C4 (as claimed): with the cursor among the enumerated nodes, the poll hands over
\* exactly the nodes strictly after it, in list order; with the cursor on the last
\* node it hands over nothing and leaves the cursor.
C4_DeliversNodesAfterCursor ==
    (InPoll /\ pc = "done" /\ cursor0 # None /\ cursor0 \in Range(messages)) =>
        /\ HandedIds = After(messages, cursor0)
        /\ cursor0 = Last(messages) =>
               handed = <<>> /\ last_message_ids[Polled] = cursor0

\* C4 (amended): with the cursor among the enumerated nodes, the nodes selected as
\* new are exactly the nodes strictly after it, in list order; the poll hands them
\* over in that order, except those whose extraction fails, up to the first one on
\* which the callback raises; with the cursor on the last node it hands over
\* nothing and leaves the cursor.
C4_SelectsNodesAfterCursor ==
    (InPoll /\ cursor0 # None /\ cursor0 \in Range(messages)) =>
        /\ new_messages = After(messages, cursor0)
        /\ HandedIds = NotSkipped(Processed)
        /\ pc = "done" => HandedIds = NotSkipped(After(messages, cursor0))
        /\ cursor0 = Last(messages) =>
               handed = <<>> /\ last_message_ids[Polled] = cursor0

\* the cursor is the first of three nodes and the two after it were handed over
C4_Witness ==
    /\ pc = "done"
    /\ cursor0 # None
    /\ cursor0 \in Range(messages)
    /\ Len(handed) = 2
    /\ HandedIds = After(messages, cursor0)

\* ---- C5
\* C5 (as claimed): with the cursor absent from the enumerated nodes, the poll
\* hands over exactly the newest node and the cursor is then its identifier.
C5_FallbackDeliversNewest ==
    (InPoll /\ pc = "done" /\ cursor0 # None /\ cursor0 \notin Range(messages)) =>
        /\ HandedIds = <<Last(messages)>>
        /\ last_message_ids[Polled] = Last(messages)

\* C5 (amended): with the cursor absent from the enumerated nodes, exactly the
\* newest node is selected, never the visible range; it is handed over unless its
\* extraction fails; the cursor is then its identifier if the callback returned,
\* and is unchanged otherwise.
C5_FallbackSelectsNewest ==
    (InPoll /\ cursor0 # None /\ cursor0 \notin Range(messages)) =>
        /\ new_messages = <<Last(messages)>>
        /\ HandedIds = NotSkipped(Processed)
        /\ PollEnded => HandedIds = NotSkipped(<<Last(messages)>>)
        /\ pc = "done" =>
               last_message_ids[Polled] =
                   IF handed # <<>> THEN Last(messages) ELSE cursor0
        /\ pc = "error" => last_message_ids[Polled] = cursor0

\* the cursor is absent from two visible nodes: the newest alone was handed over
C5_Witness ==
    /\ pc = "done"
    /\ cursor0 # None
    /\ cursor0 \notin Range(messages)
    /\ Len(messages) >= 2
    /\ HandedIds = <<Last(messages)>>
    /\ last_message_ids[Polled] = Last(messages)

\* ---- C6
\* C6: within a poll the cursor advances message by message: while a node is
\* being handed over the cursor is still the identifier of the delivery before it
\* (or the cursor the poll started with), and before the next node is extracted,
\* as at any interruption, the cursor is the identifier of the last message whose
\* callback returned.
C6_PerMessageAdvance ==
    InPoll =>
        LET ret == ReturnedIds
            cur == last_message_ids[Polled]
            before(n) == IF n = 0 THEN cursor0 ELSE ret[n]
        IN  /\ pc = "advance" => Last(ret) = msg_obj /\ cur = before(Len(ret) - 1)
            /\ pc # "advance" => cur = before(Len(ret))
            /\ pc = "deliver" => cur # msg_obj

\* two new nodes: the first was handed over and the cursor is its identifier
\* before the second is extracted
C6_Witness ==
    /\ pc = "extract"
    /\ idx = 2
    /\ Len(handed) = 1
    /\ last_message_ids[Polled] = handed[1].id
    /\ last_message_ids[Polled] # cursor0

\* this step is a callback invocation that returns a failure value
FailureStep == DeliverStep /\ handed' = Append(handed, [id |-> msg_obj, res |-> "fail"])

\* what C7 says of the poll in which the callback returns a failure value: the
\* loop goes on to the cursor assignment, the error count is untouched, the
\* cursor becomes the identifier of the message and the next new node, if any, is
\* then extracted
C7_FailureIsNotFatal ==
    /\ [][FailureStep => pc' = "advance" /\ channel_errors' = channel_errors]_vars
    /\ [][pc = "advance" =>
            /\ last_message_ids'[Polled] = msg_obj
            /\ channel_errors' = channel_errors
            /\ IF idx < Len(new_messages)
               THEN pc' = "extract" /\ idx' = idx + 1
               ELSE pc' = "done"]_vars

\* ---- C7
\* C7 (as claimed): a failure return is not fatal (the cursor advances to the
\* message, the remaining new nodes are processed, the error count is not
\* incremented) and the message is never handed to the callback again.
C7_FailureNeverRedelivered ==
    /\ C7_FailureIsNotFatal
    /\ [][DeliverStep => msg_obj \notin failed[Polled]]_vars

\* C7 (amended): a failure return is not fatal (the cursor advances to the
\* message, the remaining new nodes are processed, the error count is not
\* incremented) and the message is handed to the callback again only after the
\* cursor-lost fallback has fired in a poll after the failure.
C7_FailureRedeliveredOnlyAfterFallback ==
    /\ C7_FailureIsNotFatal
    /\ [][DeliverStep /\ msg_obj \in failed[Polled] => msg_obj \in refired[Polled]]_vars

\* the callback returned a failure for the first of two new nodes; the cursor is
\* that node and the poll is about to extract the second
C7_Witness ==
    /\ pc = "extract"
    /\ idx = 2
    /\ Len(handed) = 1
    /\ handed[1].res = "fail"
    /\ last_message_ids[Polled] = handed[1].id
    /\ channel_errors[Polled] = 0

\* ---- C8
\* C8: a cursor that is not null changes only to the identifier of a node after it
\* in the enumerated list or, when it is absent from the list, to the newest node;
\* it never becomes null.
C8_CursorMonotone ==
    [][\A c \in AllChannels :
          (last_message_ids[c] # None /\ last_message_ids'[c] # last_message_ids[c]) =>
              LET p == last_message_ids[c]
                  q == last_message_ids'[c]
              IN  /\ c = Polled
                  /\ q # None
                  /\ q \in Range(messages)
                  /\ IF p \in Range(messages)
                     THEN Pos(messages, q) > Pos(messages, p)
                     ELSE q = Last(messages)]_vars

\* the cursor was absent from a list of two nodes and is now the newest of them
C8_Witness ==
    /\ pc = "done"
    /\ cursor0 # None
    /\ cursor0 \notin Range(messages)
    /\ Len(messages) >= 2
    /\ last_message_ids[Polled] = Last(messages)

\* ---- C9
\* C9: streak counts the poll errors of a channel since its last successful poll or
\* successful reload. No reload is attempted while the streak is below five; the
\* fifth error of a streak leads to a reload attempt, which is made once; a
\* successful reload leaves the error count at 0, and below five the error count
\* is the streak, so the next error counts 1.
C9_ReloadOnFifthError ==
    /\ [](\A c \in AllChannels : streak[c] < max_errors => channel_errors[c] = streak[c])
    /\ [](pc = "reload" => streak[Polled] >= max_errors)
    /\ [][pc = "error" /\ streak[Polled] = max_errors - 1 => pc' = "reload"]_vars
    /\ [][pc = "reload" => pc' # "reload"]_vars
    /\ [][pc = "reload" /\ pc' # "classify" => channel_errors'[Polled] = 0]_vars

\* the fifth consecutive error of the channel has just led to the reload
C9_Witness ==
    /\ pc = "reload"
    /\ streak[Polled] = max_errors
    /\ channel_errors[Polled] = max_errors

\* ---- C10
\* C10: after a tab-local recovery of a channel its binding is removed, and the
\* next switch_to_channel for it, if it binds a handle, binds the handle of a tab
\* that was not open before the call.
C10_RecoveredChannelGetsNewTab ==
    /\ [](\A c \in AllChannels : recovered[c] => channel_handles[c] = None)
    /\ [][SwitchStep /\ recovered[channel_idx] /\ channel_handles'[channel_idx] # None
            => channel_handles'[channel_idx] \notin Range(windows)]_vars

\* this step is the recovery of lines 310-313 and restart_browser has returned
RestartStep == pc = "classify" /\ is_fatal /\ pc' # "stopped"

C12_RebuildResetsAllChannels ==
    [][RestartStep =>
         \A c \in Channels : channel_handles'[c] = None /\ channel_errors'[c] = 0]_vars

\* ---- C13
\* C13: monitor_messages never ends by an error: no exception leaves the loop.
C13_NoErrorLeavesLoop == pc # "stopped"

C17_BindingOneToOne ==
    \A c, d \in AllChannels :
        (c # d /\ channel_handles[c] # None) => channel_handles[c] # channel_handles[d]

\* both channels are bound and the first holds the newer handle: it was unbound
\* and bound again after the second was bound
C17_Witness ==
    /\ channel_urls = 2
    /\ channel_handles[1] # None
    /\ channel_handles[2] # None
    /\ channel_handles[1] # channel_handles[2]
    /\ channel_handles[1] > channel_handles[2]

\* ---- C15
\* C15: once the browser session is lost, then, unless restart_browser raises,
\* every configured channel is eventually polled again in a live session, bound to
\* a live tab. (A run that uses up the handles of the model ends the obligation:
\* a browser never runs out of handles.)
C15_SurvivesBrowserLoss ==
    \A c \in AllChannels :
        (~alive /\ c \in Channels) ~>
            \/ pc = "stopped"
            \/ FreshHandles = {}
            \/ /\ pc = "enumerate"
               /\ channel_idx = c
               /\ alive
               /\ HandleValid(c)
               /\ current = channel_handles[c]

\* the session was lost and rebuilt, and the second channel is polled in a tab of
\* the new session
C15_Witness ==
    /\ pc = "enumerate"
    /\ channel_idx = 2
    /\ alive
    /\ HandleValid(2)
    /\ \E c \in Channels : channel_errors[c] >= max_errors

\* ---- C16
\* C16: an interrupt signal raised while monitoring is not swallowed: once it is
\* raised the loop has stopped, and the session is torn down.
C16_InterruptStopsLoop ==
    signal = "raised" => pc \in {"interrupted", "exited"}

\* ---- C18
\* C18: for a node without an identifier attribute parse_message returns nothing,
\* the callback is not invoked and the cursor is not set.
C18_NoIdentifierNoMessage ==
    (pc # "parse" /\ element.id = None) =>
        /\ ~parsed.returned
        /\ handed = <<>>

\* ---- C19
\* C19: a node with no content element and k >= 1 attachments is given the
\* attachment-count placeholder for k as its content.
C19_AttachmentPlaceholder ==
    (pc # "parse" /\ parsed.returned /\ element.contents = <<>>
       /\ parsed.attachments # <<>>) =>
        parsed.content = AttachmentPlaceholder(Len(parsed.attachments))

\* ---- C20
\* C20: the extracted attachment list holds no URL twice.
C20_NoDuplicateAttachment ==
    (pc # "parse" /\ parsed.returned) =>
        \A i, j \in 1..Len(parsed.attachments) :
            parsed.attachments[i] = parsed.attachments[j] => i = j
\* ---- C21
\* C21: for a node without a username element the author is the name of the
\* nearest preceding sibling message node, among the Lookback nearest ones, whose
\* username element has a text; a name further back is not used: without a name
\* in the window the author is none of the siblings' names.
C21_AuthorFromNearestSibling ==
    (pc = "named" /\ ~element.header.present) =>
        LET prev == element.prev
            n == Len(prev)
            near == {i \in 1..n : n - i < Lookback /\ prev[i] = "named"}
        IN  /\ \A i \in near :
                   (\A j \in near : j <= i) => username = SiblingName(i)
            /\ near = {} => \A i \in 1..n : username # SiblingName(i)

\* nine preceding siblings: the farthest and the third nearest have a name, the
\* nearest has an empty one, and the author is the name of the third nearest
C21_Witness ==
    /\ pc = "named"
    /\ ~element.header.present
    /\ Len(element.prev) = Lookback + 1
    /\ element.prev[1] = "named"
    /\ element.prev[Lookback - 1] = "named"
    /\ element.prev[Lookback] = "none"
    /\ element.prev[Lookback + 1] = "empty"
    /\ username = SiblingName(Lookback - 1)
\* ---- C22
\* C22: the cursor is never advanced past a node whose extraction failed: during
\* and after a poll in which parse_message returned nothing for a node, the cursor
\* is not the identifier of a node listed after it.
C22_CursorNotPastFailedNode ==
    InPoll =>
        \A n \in skipped :
            \A j \in (Pos(messages, n) + 1)..Len(messages) :
                last_message_ids[Polled] # messages[j]
\* this step is a parse_message call that returns None
ExtractFailureStep == pc = "extract" /\ pc' # "deliver"

\* ---- C23
\* C23: when parse_message returns nothing for a new node the poll goes on: the
\* callback is not invoked for the node and the error counts are untouched, the
\* next new node of the poll, if any, is extracted next, the identifiers handed
\* over are at all times the nodes gone through whose extraction succeeded, in
\* order, and a poll that runs to its end leaves the error count at 0.
C23_ExtractionFailureSkipsNode ==
    /\ [][ExtractFailureStep =>
            /\ handed' = handed
            /\ channel_errors' = channel_errors
            /\ new_messages' = new_messages
            /\ IF idx < Len(new_messages)
               THEN pc' = "extract" /\ idx' = idx + 1
               ELSE pc' = "done"]_vars
    /\ [](InPoll => HandedIds = NotSkipped(Processed))
    /\ [][pc = "done" => channel_errors'[Polled] = 0]_vars

\* extraction failed for the first of two new nodes and the second was handed over
C23_Witness ==
    /\ pc = "done"
    /\ Len(new_messages) = 2
    /\ skipped = {new_messages[1]}
    /\ HandedIds = <<new_messages[2]>>
\* this step removes the binding of a channel
UnbindStep == \E c \in AllChannels : channel_handles[c] # None /\ channel_handles'[c] = None
\* this step replaces the browser session
RebuildStep == (~alive /\ alive') \/ (windows = <<>> /\ windows' # <<>>)

\* ---- C24
\* C24: the error count of a channel is the number of its poll errors since the
\* count was last set to 0, and a poll that runs to its end sets it to 0; a reload
\* is attempted only in the handling of a poll error that brings the count of the
\* polled channel to 5 or more; a binding is removed and the session is replaced
\* only in the handling of that same error, right after its reload attempt failed.
C24_EscalatesStepByStep ==
    /\ [][\A c \in AllChannels :
            channel_errors'[c] # channel_errors[c] =>
                \/ channel_errors'[c] = 0
                \/ pc = "error" /\ c = Polled
                      /\ channel_errors'[c] = channel_errors[c] + 1]_vars
    /\ [][pc = "done" => channel_errors'[Polled] = 0 /\ pc' # "reload"]_vars
    /\ [][pc' = "reload" =>
            /\ pc = "error"
            /\ channel_idx' = channel_idx
            /\ channel_errors'[Polled] >= max_errors]_vars
    /\ [][pc' = "classify" => pc = "reload" /\ channel_idx' = channel_idx]_vars
    /\ [][UnbindStep \/ RebuildStep => pc = "classify"]_vars

\* the fifth error of a channel led to a reload that failed, and the channel was
\* unbound in a session that is still alive
C24_Witness ==
    \E c \in Channels :
        /\ recovered[c]
        /\ channel_handles[c] = None
        /\ streak[c] = max_errors
        /\ channel_errors[c] = 0
        /\ alive
\* ---- C25
\* C25: the failure of a reload is handled as fatal (the session is replaced, or
\* restart_browser raises) exactly when listing the windows raises or gives none;
\* otherwise the recovery removes the binding of the polled channel and sets its
\* error count to 0, leaves the binding and the count of every other channel and
\* every cursor as they are, and the browser session stays the one it was.
C25_TabLocalRecoveryIsLocal ==
    /\ [][pc = "classify" =>
            ((RebuildStep \/ pc' = "stopped") <=> (~alive \/ windows = <<>>))]_vars
    /\ [][pc = "classify" /\ alive /\ windows # <<>> =>
            /\ channel_handles' = [channel_handles EXCEPT ![Polled] = None]
            /\ channel_errors' = [channel_errors EXCEPT ![Polled] = 0]
            /\ last_message_ids' = last_message_ids
            /\ alive'
            /\ Range(windows') \subseteq Range(windows)]_vars

\* the first of two channels was unbound by a tab-local recovery while the second
\* keeps its binding, its cursor and a counted error
C25_Witness ==
    /\ channel_urls = 2
    /\ recovered[1]
    /\ channel_handles[1] = None
    /\ channel_errors[1] = 0
    /\ channel_handles[2] # None
    /\ last_message_ids[2] # None
    /\ channel_errors[2] > 0
    /\ alive
\* ---- C26
\* C26: when activating the live tab a channel is bound to raises inside
\* switch_to_channel, the channel is unbound and a tab is created for it in the
\* same call: a call that reports failure leaves the channel unbound, and the
\* failure is then handled as a poll error of the channel.
C26_FailedActivationUnbindsAndRetries ==
    [][SwitchStep /\ HandleValid(channel_idx) /\ pc' = "error" =>
         channel_handles'[channel_idx] = None]_vars
\* this step is a switch_to_channel call that binds an unbound channel to a
\* window that was already open
ReuseStep ==
    /\ SwitchStep
    /\ channel_handles[channel_idx] = None
    /\ channel_handles'[channel_idx] # None
    /\ windows' = windows

\* ---- C27
\* C27: switch_to_channel binds an unbound channel to the current tab, without
\* opening one, only when no open tab shows the page of a channel; so the tab it
\* reuses is never one that renders another channel.
C27_ReuseOnlyOnColdStart ==
    [][ReuseStep => \A h \in Range(windows) : tabUrl[h] = None]_vars
\* this step is a switch_to_channel call for an unbound channel while another
\* channel has a binding
UnboundAmongBoundStep ==
    /\ SwitchStep
    /\ channel_handles[channel_idx] = None
    /\ \E d \in AllChannels : channel_handles[d] # None

\* ---- C28
\* C28: switch_to_channel for an unbound channel, when another channel has a
\* binding, succeeds only by opening a new tab, which then shows the channel, is
\* the active tab and is the one the channel is bound to; whether it succeeds or
\* not, the bindings of the other channels are unchanged and no tab that was
\* open before is navigated.
C28_NewTabForUnboundChannel ==
    [][UnboundAmongBoundStep =>
         /\ \A d \in AllChannels \ {channel_idx} : channel_handles'[d] = channel_handles[d]
         /\ \A g \in Range(windows) : tabUrl'[g] = tabUrl[g]
         /\ pc' = "enumerate" =>
                \E h \in Handles \ Range(windows) :
                    /\ windows' = Append(windows, h)
                    /\ tabUrl'[h] = channel_idx
                    /\ current' = h
                    /\ channel_handles'[channel_idx] = h
         /\ pc' # "enumerate" => channel_handles'[channel_idx] = None]_vars

\* the second channel was bound to a second tab while the first keeps the first
C28_Witness ==
    /\ pc = "enumerate"
    /\ channel_idx = 2
    /\ channel_handles = <<1, 2>>
    /\ windows = <<1, 2>>
    /\ tabUrl[1] = 1
    /\ tabUrl[2] = 2
    /\ current = 2
\* this step is a switch_to_channel call for a channel bound to a live tab
BoundLiveStep == SwitchStep /\ HandleValid(channel_idx)

\* ---- C29
\* C29: switch_to_channel for a channel bound to a live tab opens no tab,
\* navigates no tab and changes no binding; when the bound tab is already the
\* active one it returns success and the active tab stays; otherwise it makes the
\* bound tab the active one and returns success, and it reports failure only when
\* that switch raises; on a successful return the active tab is the bound tab.
C29_BoundLiveTabIsActivated ==
    [][BoundLiveStep =>
         LET handle == channel_handles[channel_idx]
         IN  /\ windows' = windows
             /\ tabUrl' = tabUrl
             /\ channel_handles' = channel_handles
             /\ current = handle => pc' = "enumerate" /\ current' = current
             /\ pc' = "enumerate" => current' = handle
             /\ pc' # "enumerate" => current # handle /\ current' = current]_vars

\* the first channel is polled again after the second: its tab was made the
\* active one, and both bindings are as they were
C29_Witness ==
    /\ pc = "enumerate"
    /\ channel_urls = 2
    /\ channel_idx = 1
    /\ channel_handles = <<1, 2>>
    /\ windows = <<1, 2>>
    /\ current = 1
    /\ last_message_ids[2] # None
\* the handling of a poll error: the except block of lines 288-337
InHandler == pc \in {"error", "reload", "classify"}
\* this step ends the handling of a poll error without a session rebuild
HandledStep == InHandler /\ ~InHandler' /\ ~RebuildStep /\ pc' # "stopped"

\* ---- C30
\* C30: in a round the channels are visited in configuration order, each once:
\* the channels visited so far are always the first ones, in order; a round that
\* reaches its sleep otherwise than by a session rebuild has visited every
\* configured channel; and when the handling of a poll error ends without a
\* rebuild, reload and tab-local recovery included, the next channel is the one
\* visited next, or the round sleeps if there is none.
C30_EveryChannelEveryRound ==
    /\ [](/\ Len(visited) <= channel_urls
          /\ \A i \in 1..Len(visited) : visited[i] = i)
    /\ [][pc # "sleep" /\ pc' = "sleep" /\ ~RebuildStep =>
            Len(visited) = channel_urls /\ visited' = visited]_vars
    /\ [][HandledStep =>
            IF channel_idx < channel_urls
            THEN pc' = "switch" /\ channel_idx' = channel_idx + 1
            ELSE pc' = "sleep"]_vars
    /\ [][SwitchStep => channel_idx = Len(visited) + 1]_vars

\* a round of two channels ends after a tab-local recovery of the first and the
\* visit of the second
C30_Witness ==
    /\ pc = "sleep"
    /\ channel_urls = 2
    /\ visited = <<1, 2>>
    /\ recovered[1]
    /\ alive
\* ---- C31
\* C31: no wait inside the monitor loop is unbounded: the loop always comes to
\* the visit of a channel again, unless an error has ended it.
C31_LoopAlwaysProceeds ==
    []<>(pc = "switch" \/ pc = "stopped")
\* the callback has returned for msg_obj and line 280 has not run yet
Assigning(c) == pc = "advance" /\ c = Polled

\* ---- C32
\* C32 (as claimed): outside the two statements of lines 278-280, the cursor of a
\* channel is the identifier of the message most recently passed to the callback
\* for that channel, or null if the callback was never invoked for it.
C32_CursorIsLastHanded ==
    \A c \in AllChannels :
        ~Assigning(c) => last_message_ids[c] = lastHanded[c].id

\* C32 (amended): outside the two statements of lines 278-280, the cursor of a
\* channel is the identifier of the message of the most recent callback
\* invocation that returned, or null if none has: it is the message last passed
\* to the callback when that invocation returned, it is null when the callback
\* was never invoked, and a cursor changes only by the assignment that follows a
\* returned invocation for the polled channel, to the identifier of that message.
C32_CursorIsLastReturned ==
    /\ [](\A c \in AllChannels :
            /\ (lastHanded[c].res = "ret" /\ ~Assigning(c)) =>
                   last_message_ids[c] = lastHanded[c].id
            /\ lastHanded[c].res = "none" => last_message_ids[c] = None)
    /\ [][\A c \in AllChannels :
            last_message_ids'[c] # last_message_ids[c] =>
                /\ Assigning(c)
                /\ lastHanded[c] = [id |-> msg_obj, res |-> "ret"]
                /\ last_message_ids'[c] = msg_obj]_vars

\* the callback raised on the message after the cursor: between polls the cursor
\* is still the message before it
C32_Witness ==
    /\ pc = "switch"
    /\ \E c \in Channels :
           /\ lastHanded[c].res = "raise"
           /\ last_message_ids[c] # None
           /\ last_message_ids[c] < lastHanded[c].id
\* the loop is between the return of switch_to_channel and the end of the poll
AtPage == pc \in {"enumerate", "extract", "deliver", "advance", "done"}

\* ---- C33
\* C33: while the loop waits for, enumerates or processes the nodes of a channel,
\* the active tab is an open tab, the one the channel is bound to; no other
\* channel is bound to it; it shows the page of the channel, and the enumerated
\* nodes, from which alone the cursor is set, are those of the channel.
C33_PollsOwnTab ==
    AtPage =>
        /\ current \in Range(windows)
        /\ channel_handles[Polled] = current
        /\ \A d \in AllChannels \ {Polled} : channel_handles[d] # current
        /\ tabUrl[current] = Polled
        /\ InPoll => messages = Nodes(dom[Polled])

\* the second channel is polled in its own tab while the first keeps a live one
C33_Witness ==
    /\ pc = "extract"
    /\ channel_idx = 2
    /\ HandleValid(1)
    /\ current = channel_handles[2]
    /\ tabUrl[current] = 2
    /\ messages = Nodes(dom[2])
\* ---- C34
\* C34: the tab that the reload of a channel's fifth error and the close of its
\* tab-local recovery are applied to, the active tab, is never a tab bound to
\* another channel.
C34_RecoveryActsOnOwnTab ==
    (pc \in {"reload", "classify"} /\ current \in Range(windows)) =>
        \A d \in AllChannels \ {Polled} : channel_handles[d] # current

\* the callback raises for the node in msg_obj
RaiseStep == DeliverStep /\ lastHanded'[Polled] = [id |-> msg_obj, res |-> "raise"]

\* C35: when the callback raises for message m, the cursor is not advanced to m and
\* no other node of that poll is delivered; the poll ends as an error that adds one to
\* the channel's error count; and the next successful poll that finds the cursor's
\* node, m still rendered, hands m to the callback again, before any later node
C35_RaiseLeavesCursorAndRetries ==
    /\ [][RaiseStep => /\ last_message_ids' = last_message_ids
                       /\ pc' = "error"]_vars
    /\ [][pc = "error" /\ pc' # "error"
            => /\ channel_errors'[Polled] = channel_errors[Polled] + 1
               /\ last_message_ids' = last_message_ids
               /\ pc' \notin {"extract", "deliver", "advance"}]_vars
    /\ [][DeliverStep /\ lastHanded[Polled].res = "raise" /\ kind = "after"
            => msg_obj <= lastHanded[Polled].id]_vars
    /\ []((pc = "done" /\ kind = "after" /\ lastHanded[Polled].id \in Range(messages))
            => lastHanded[Polled].res # "raise")

C37_TabsBoundedByChannels ==
    (pc \in {"switch", "sleep"} /\ alive) => Len(windows) <= channel_urls

\* ---- C38
\* a poll of the channel fails: its tab cannot be activated, or the poll raises
LegacyFailStep == LegacySwitchFails \/ LegacyPollError

\* C38: in the earlier listener every failed poll of a channel, a failed activation of
\* its tab included, is counted for that channel alone: the count tested against the
\* threshold is the number of the channel's own failures since its last good poll or
\* good reload, whatever the other channels do, and when that number reaches 5 a reload
\* is attempted
C38_OwnCounterReachesThreshold ==
    /\ [][LegacyFailStep => error_count' = streak'[Polled]]_vars
    /\ [][LegacyFailStep /\ streak'[Polled] >= max_errors => pc' = "reload"]_vars

\* ---- C39
\* C39: when the lookup of the username element fails with an error of the driver,
\* whatever the error, parse_message goes on past the author field and the author is
\* what the fallback chain gives for the node (a sibling's name, the aria-label name,
\* or the placeholder)
C39_FieldFailureNeverPropagates ==
    (pc # "name" /\ element.header.error) =>
        /\ pc = "named"
        /\ username = extract_username([element EXCEPT !.header = NoHeader])

\* ---- C40
\* C40: the content of an extracted message is the text of the node's last content
\* element; else the text of its last markup element; else (the attachment-count
\* placeholder of C19 apart) with no attachment found the content-unavailable
\* placeholder: the content of an extracted message is never empty or blank
C40_ContentNeverBlank ==
    (pc # "parse" /\ parsed.returned) =>
        LET e == element
            text == IF e.contents # <<>> THEN e.contents[Len(e.contents)] ELSE ""
            rich == IF e.markup # <<>> THEN e.markup[Len(e.markup)] ELSE ""
        IN  /\ ~Blank(text) => parsed.content = text
            /\ (Blank(text) /\ ~Blank(rich)) => parsed.content = rich
            /\ (Blank(text) /\ Blank(rich) /\ parsed.attachments = <<>>)
                   => parsed.content = Unavailable
            /\ ~Blank(parsed.content)

====
